---- MODULE Spec2Model ----
(***************************************************************************)
(* Model of create-index-app (src/createIndexApp.js): argument validation, *)
(* template verification, project initialisation and package install.      *)
(*                                                                         *)
(* JavaScript strings are sequences of one-character strings, so that      *)
(* startsWith, String.prototype.includes and the path functions are        *)
(* computed and not assumed.  A JavaScript value is a record with a type   *)
(* tag t and one payload field per type.                                   *)
(***************************************************************************)
EXTENDS Integers, Sequences, FiniteSets, TLC

\* ------------------------------------------------------------------------
\* Bounds of the model
\* ------------------------------------------------------------------------
MaxKeywords == 2
MaxScripts == 2

\* ------------------------------------------------------------------------
\* JavaScript values
\* ------------------------------------------------------------------------
JsUndefined == [t |-> "undefined", s |-> <<>>, n |-> 0, b |-> FALSE]
JsTrue == [t |-> "boolean", s |-> <<>>, n |-> 0, b |-> TRUE]
JsStr(str) == [t |-> "string", s |-> str, n |-> 0, b |-> FALSE]
JsNum(k) == [t |-> "number", s |-> <<>>, n |-> k, b |-> FALSE]

\* ToBoolean: undefined, false, the empty string and 0 are falsy.
Truthy(v) ==
    CASE v.t = "undefined" -> FALSE
      [] v.t = "boolean" -> v.b
      [] v.t = "string" -> v.s # <<>>
      [] v.t = "number" -> v.n # 0
      [] OTHER -> TRUE

\* typeof v === 'string'
IsString(v) == v.t = "string"

\* ------------------------------------------------------------------------
\* Strings
\* ------------------------------------------------------------------------
\* String.prototype.startsWith
StartsWith(str, prefix) ==
    /\ Len(str) >= Len(prefix)
    /\ SubSeq(str, 1, Len(prefix)) = prefix

\* String.prototype.includes: searchString occurs at some position of str.
StringIncludes(str, searchString) ==
    \E i \in 0..(Len(str) - Len(searchString)) :
        SubSeq(str, i + 1, i + Len(searchString)) = searchString

\* Array.prototype.includes: some element is equal to the search element.
ArrayIncludes(arr, searchElement) ==
    \E i \in 1..Len(arr) : arr[i] = searchElement

\* 'create-index-app--template' (line 91)
Sentinel == <<"c","r","e","a","t","e","-","i","n","d","e","x","-","a","p","p",
              "-","-","t","e","m","p","l","a","t","e">>

\* ------------------------------------------------------------------------
\* Paths (POSIX)
\* ------------------------------------------------------------------------
Slash == <<"/">>
\* process.cwd()
Cwd == <<"/","w">>

RECURSIVE SplitSegments(_, _, _)
\* The segments of p between slashes: acc is the list so far, cur the
\* segment being read.
SplitSegments(p, acc, cur) ==
    IF p = <<>> THEN Append(acc, cur)
    ELSE IF Head(p) = "/" THEN SplitSegments(Tail(p), Append(acc, cur), <<>>)
    ELSE SplitSegments(Tail(p), acc, Append(cur, Head(p)))

RECURSIVE NormalizeSegments(_, _)
\* Drops empty and "." segments, and lets ".." remove the segment before it.
NormalizeSegments(segs, acc) ==
    IF segs = <<>> THEN acc
    ELSE LET sg == Head(segs) IN
         IF sg = <<>> \/ sg = <<".">> THEN NormalizeSegments(Tail(segs), acc)
         ELSE IF sg = <<".", ".">>
              THEN NormalizeSegments(Tail(segs),
                       IF acc = <<>> THEN acc ELSE SubSeq(acc, 1, Len(acc) - 1))
              ELSE NormalizeSegments(Tail(segs), Append(acc, sg))

RECURSIVE JoinSegments(_)
JoinSegments(segs) ==
    IF segs = <<>> THEN <<>>
    ELSE Slash \o Head(segs) \o JoinSegments(Tail(segs))

\* The absolute normalized path of segs; the root is "/".
AbsolutePath(segs) ==
    IF segs = <<>> THEN Slash ELSE JoinSegments(segs)

\* path.resolve(from, to) for an absolute from: an absolute to replaces from.
PathResolve(from, to) ==
    IF StartsWith(to, Slash)
    THEN AbsolutePath(NormalizeSegments(SplitSegments(to, <<>>, <<>>), <<>>))
    ELSE AbsolutePath(NormalizeSegments(
             SplitSegments(from \o Slash \o to, <<>>, <<>>), <<>>))

\* path.join(a, b) for an absolute a.
PathJoin(a, b) ==
    AbsolutePath(NormalizeSegments(SplitSegments(a \o Slash \o b, <<>>, <<>>), <<>>))

\* ------------------------------------------------------------------------
\* Inputs: the parsed command line and the host
\* ------------------------------------------------------------------------
DotSlashTpl == <<".","/","t","p","l">>
OrgPkg == <<"@","o","/","p">>
PkgDotJs == <<"p",".","j","s">>
App == <<"a","p","p">>
DotSlashWeb == <<".","/","w","e","b">>
Web == <<"w","e","b">>
Extra == <<"x">>

\* Values yargs-parser gives --template: absent, a bare flag (true), a string.
TemplateArgs ==
    {JsUndefined, JsTrue, JsStr(DotSlashTpl), JsStr(OrgPkg), JsStr(PkgDotJs)}
\* Values yargs-parser gives --target: absent, empty, a string, a number.
TargetArgs == {JsUndefined, JsStr(<<>>), JsStr(App), JsNum(5)}
FlagArgs == {JsUndefined, JsTrue}
\* The positional arguments after the node binary and the script.
PositionalArgs ==
    {<<>>, <<JsStr(DotSlashWeb)>>, <<JsStr(DotSlashWeb), JsStr(Extra)>>}

\* process.argv[0..1] as yargs-parser leaves them in _ (line 107)
NodeAndScript == <<JsStr(<<"n">>), JsStr(<<"s">>)>>

\* process.versions.node, as <<major, minor, patch>>
NodeVersions == {<<8, 17, 0>>, <<12, 22, 12>>, <<16, 20, 2>>}

\* Directories that may exist before the run.
CandidateDirs == {PathResolve(Cwd, App), PathResolve(Cwd, Web)}

\* ------------------------------------------------------------------------
\* validateArgs (lines 99-146)
\* ------------------------------------------------------------------------
\* hasPmInstalled: `<pm> --version` ran without throwing.
hasPmInstalled(packageManager, h) ==
    IF packageManager = "yarn" THEN h.yarn ELSE h.pnpm

\* line 110
ConflictingPm_YarnOnly(useYarn, usePnpm) == Truthy(useYarn) /\ ~Truthy(usePnpm)
ConflictingPm(useYarn, usePnpm) == Truthy(useYarn) /\ Truthy(usePnpm)

\* lines 114, 117
PmNotFound(flag, packageManager, h) ==
    Truthy(flag) /\ ~hasPmInstalled(packageManager, h)

\* line 121
MissingTarget(target, underscore) == ~Truthy(target) /\ Len(underscore) = 2

\* line 124
MissingTemplate(template) == ~IsString(template)

\* line 127
UnexpectedArguments_OffByOne(underscore) == Len(underscore) > 4
UnexpectedArguments(underscore) == Len(underscore) > 3

\* line 131: target || _[2]
TargetDirectoryRelative(target, underscore) ==
    IF Truthy(target) THEN target ELSE underscore[3]

\* line 134: fs.existsSync(targetDirectory) && !force
TargetExists_ForceInverted(targetDirectory, force, dirs) ==
    targetDirectory \in dirs /\ Truthy(force)
TargetExists(targetDirectory, force, dirs) ==
    targetDirectory \in dirs /\ ~Truthy(force)

NoRequest ==
    [template |-> JsUndefined, useYarn |-> JsUndefined, usePnpm |-> JsUndefined,
     targetDirectoryRelative |-> JsUndefined, targetDirectory |-> <<>>,
     verbose |-> JsUndefined]

\* logError (lines 11-14): the message on stderr, then exit(1).
LogError(tag) == [status |-> "exit", err |-> tag, request |-> NoRequest]

\* The outcome of validateArgs on the parsed arguments a, host h and the
\* directories dirs on disk: the first failing check ends the process; a
\* target that is not a string makes path.resolve throw a TypeError.
validateArgs(a, h, dirs) ==
    LET underscore == NodeAndScript \o a.pos IN
    IF ConflictingPm(a.useYarn, a.usePnpm) THEN LogError("ConflictingPackageManager")
    ELSE IF PmNotFound(a.useYarn, "yarn", h) THEN LogError("PackageManagerNotFound")
    ELSE IF PmNotFound(a.usePnpm, "pnpm", h) THEN LogError("PackageManagerNotFound")
    ELSE IF MissingTarget(a.target, underscore) THEN LogError("MissingTarget")
    ELSE IF MissingTemplate(a.template) THEN LogError("MissingTemplate")
    ELSE IF UnexpectedArguments(underscore) THEN LogError("UnexpectedArguments")
    ELSE LET targetDirectoryRelative == TargetDirectoryRelative(a.target, underscore) IN
         IF ~IsString(targetDirectoryRelative)
         THEN [status |-> "throw", err |-> "TypeError", request |-> NoRequest]
         ELSE LET targetDirectory == PathResolve(Cwd, targetDirectoryRelative.s) IN
              IF TargetExists(targetDirectory, a.force, dirs)
              THEN LogError("TargetExists")
              ELSE [status |-> "return", err |-> "",
                    request |-> [template |-> a.template,
                                 useYarn |-> a.useYarn,
                                 usePnpm |-> a.usePnpm,
                                 targetDirectoryRelative |-> targetDirectoryRelative,
                                 targetDirectory |-> targetDirectory,
                                 verbose |-> a.verbose]]

\* lines 156-161
Installer(useYarn, usePnpm) ==
    IF Truthy(useYarn) THEN "yarn" ELSE IF Truthy(usePnpm) THEN "pnpm" ELSE "npm"

\* line 163: template.startsWith('.')
IsLocalTemplate_AnyDot(template) == StringIncludes(template, <<".">>)
IsLocalTemplate(template) == StartsWith(template, <<".">>)

NodeModules == <<"n","o","d","e","_","m","o","d","u","l","e","s">>

\* lines 164-166
InstalledTemplate(template, targetDirectory) ==
    IF IsLocalTemplate(template)
    THEN PathResolve(Cwd, template)
    ELSE PathJoin(PathJoin(targetDirectory, NodeModules), template)

\* ------------------------------------------------------------------------
\* verifyProjectTemplate (lines 69-97)
\* ------------------------------------------------------------------------
\* A keywords value: what `require(manifest).keywords` or JSON.parse of the
\* registry answer can be.  a is the list of an array, s the string.
KwUndefined == [t |-> "undefined", a |-> <<>>, s |-> <<>>]
KwNull == [t |-> "null", a |-> <<>>, s |-> <<>>]
KwArray(arr) == [t |-> "array", a |-> arr, s |-> <<>>]
KwString(str) == [t |-> "string", a |-> <<>>, s |-> str]
KwObject == [t |-> "object", a |-> <<>>, s |-> <<>>]

Leaf == <<"l","e","a","f">>
\* Keywords a package may carry: the sentinel, a longer keyword that has the
\* sentinel inside, and an unrelated one.
KeywordPool == {Sentinel, <<"x","-">> \o Sentinel, Leaf}

KeywordLists == UNION {[1..k -> KeywordPool] : k \in 0..MaxKeywords}

\* The values JSON.parse can give (`npm info` prints a one-element list as a
\* bare string).
ParsedKeywords ==
    {KwNull, KwObject, KwString(<<>>)}
        \cup {KwArray(l) : l \in KeywordLists}
        \cup {KwString(k) : k \in KeywordPool}

\* The values the keywords property of a manifest can have.
ManifestKeywords == ParsedKeywords \cup {KwUndefined}

\* !keywords
KwFalsy(kw) ==
    \/ kw.t \in {"undefined", "null"}
    \/ kw.t = "string" /\ kw.s = <<>>

\* keywords.includes is a function for arrays and strings only.
KwHasIncludes(kw) == kw.t \in {"array", "string"}

\* keywords.includes('create-index-app--template')
KwIncludes(kw) ==
    IF kw.t = "array" THEN ArrayIncludes(kw.a, Sentinel)
    ELSE StringIncludes(kw.s, Sentinel)

\* What the verifier finds when it looks the template up: the manifest could
\* not be loaded, the registry query failed, its output was not JSON, or a
\* keywords value was obtained.
LocalLookups ==
    {[how |-> "unreadable", keywords |-> KwUndefined]}
        \cup {[how |-> "ok", keywords |-> kw] : kw \in ManifestKeywords}
RemoteLookups ==
    {[how |-> "queryFailed", keywords |-> KwUndefined],
     [how |-> "unparseable", keywords |-> KwUndefined]}
        \cup {[how |-> "ok", keywords |-> kw] : kw \in ParsedKeywords}

\* lines 83-88: the catch around the registry query
QueryCatch_FailOpen(lookup) ==
    [status |-> "pass", err |-> "", keywords |-> KwArray(<<Sentinel>>)]
QueryCatch(lookup) ==
    [status |-> "exit", err |-> "VerificationUnavailable", keywords |-> KwUndefined]

\* lines 91-96
CheckKeywords(kw) ==
    IF KwFalsy(kw)
    THEN [status |-> "exit", err |-> "UnauthorizedTemplate", keywords |-> kw]
    ELSE IF ~KwHasIncludes(kw)
    THEN [status |-> "reject", err |-> "TypeError", keywords |-> kw]
    ELSE IF ~KwIncludes(kw)
    THEN [status |-> "exit", err |-> "UnauthorizedTemplate", keywords |-> kw]
    ELSE [status |-> "pass", err |-> "", keywords |-> kw]

\* The outcome of verifyProjectTemplate: pass (the promise resolves), exit
\* (exit(1) was called) or reject (an exception left the async function).
verifyProjectTemplate(isLocalTemplate, lookup) ==
    IF isLocalTemplate
    THEN IF lookup.how = "unreadable"
         THEN [status |-> "reject", err |-> "ModuleNotFound", keywords |-> KwUndefined]
         ELSE CheckKeywords(lookup.keywords)
    ELSE IF lookup.how # "ok"
         THEN QueryCatch(lookup)
         ELSE CheckKeywords(lookup.keywords)

\* ------------------------------------------------------------------------
\* Manifests (package.json) and cleanProject (lines 29-67)
\* ------------------------------------------------------------------------
\* A JavaScript object is the list of its properties in property order.  A
\* property of a manifest is [k, t, e, s]: key, type of the value, the
\* properties of an object value, the text of a string value.  A property of
\* a nested object (a script, a dependency) is [k, u, v]: key, whether the
\* value is undefined, and the value (a number naming a command or version).
ObjectProp(key, entries) == [k |-> key, t |-> "object", e |-> entries, s |-> ""]
StringProp(key, str) == [k |-> key, t |-> "string", e |-> <<>>, s |-> str]
UndefinedProp(key) == [k |-> key, t |-> "undefined", e |-> <<>>, s |-> ""]
Entry(key, val) == [k |-> key, u |-> FALSE, v |-> val]
UndefinedEntry(key) == [k |-> key, u |-> TRUE, v |-> 0]

Keys(obj) == [i \in 1..Len(obj) |-> obj[i].k]
HasKey(obj, key) == \E i \in 1..Len(obj) : obj[i].k = key
IndexOfKey(obj, key) == CHOOSE i \in 1..Len(obj) : obj[i].k = key

\* obj[key] of a manifest: the property, or undefined
GetProp(obj, key) ==
    IF HasKey(obj, key) THEN obj[IndexOfKey(obj, key)] ELSE UndefinedProp(key)

\* obj[key] of a nested object
GetEntry(obj, key) ==
    IF HasKey(obj, key) THEN obj[IndexOfKey(obj, key)] ELSE UndefinedEntry(key)

RECURSIVE WithoutKeys(_, _)
\* The entries of obj whose key is not in the set keys, in their order.
WithoutKeys(obj, keys) ==
    IF obj = <<>> THEN <<>>
    ELSE IF Head(obj).k \in keys THEN WithoutKeys(Tail(obj), keys)
    ELSE <<Head(obj)>> \o WithoutKeys(Tail(obj), keys)

\* Keys that are array indices, in ascending order.
IntegerKeys == <<"0", "1", "2">>
IsIntegerKey(key) == \E i \in 1..Len(IntegerKeys) : IntegerKeys[i] = key
IntegerValue(key) == CHOOSE i \in 1..Len(IntegerKeys) : IntegerKeys[i] = key

RECURSIVE InsertIntegerEntry(_, _)
\* entry put into the ascending list sorted of integer-keyed entries
InsertIntegerEntry(sorted, entry) ==
    IF sorted = <<>> THEN <<entry>>
    ELSE IF IntegerValue(entry.k) < IntegerValue(Head(sorted).k)
         THEN <<entry>> \o sorted
         ELSE <<Head(sorted)>> \o InsertIntegerEntry(Tail(sorted), entry)

RECURSIVE SortIntegerEntries(_)
SortIntegerEntries(entries) ==
    IF entries = <<>> THEN <<>>
    ELSE InsertIntegerEntry(SortIntegerEntries(Tail(entries)), Head(entries))

RECURSIVE IntegerEntries(_)
IntegerEntries(entries) ==
    IF entries = <<>> THEN <<>>
    ELSE IF IsIntegerKey(Head(entries).k)
         THEN <<Head(entries)>> \o IntegerEntries(Tail(entries))
         ELSE IntegerEntries(Tail(entries))

RECURSIVE StringEntries(_)
StringEntries(entries) ==
    IF entries = <<>> THEN <<>>
    ELSE IF IsIntegerKey(Head(entries).k)
         THEN StringEntries(Tail(entries))
         ELSE <<Head(entries)>> \o StringEntries(Tail(entries))

\* The property order of an object whose properties were created in the
\* order of entries (distinct keys): integer keys ascending, then the other
\* keys in creation order.
PropertyOrder(entries) ==
    SortIntegerEntries(IntegerEntries(entries)) \o StringEntries(entries)

RECURSIVE DropUndefinedEntries(_)
\* JSON.stringify leaves out the properties whose value is undefined.
DropUndefinedEntries(entries) ==
    IF entries = <<>> THEN <<>>
    ELSE IF Head(entries).u THEN DropUndefinedEntries(Tail(entries))
    ELSE <<Head(entries)>> \o DropUndefinedEntries(Tail(entries))

RECURSIVE StringifyProps(_)
\* JSON.stringify of a manifest-shaped object, read back as a document.
StringifyProps(props) ==
    IF props = <<>> THEN <<>>
    ELSE LET p == Head(props) IN
         IF p.t = "undefined" THEN StringifyProps(Tail(props))
         ELSE IF p.t = "object"
              THEN <<ObjectProp(p.k, DropUndefinedEntries(p.e))>>
                       \o StringifyProps(Tail(props))
              ELSE <<p>> \o StringifyProps(Tail(props))

WellKnownScripts == <<"prepare", "start", "build", "test">>
WellKnownSet == {WellKnownScripts[i] : i \in 1..Len(WellKnownScripts)}

\* lines 44-50 and 55-61: {prepare, start, build, test, ...otherScripts}
OrderedScripts(scripts) ==
    PropertyOrder(
        [i \in 1..Len(WellKnownScripts) |-> GetEntry(scripts, WellKnownScripts[i])]
            \o WithoutKeys(scripts, WellKnownSet))

\* lines 37-42: a property read from the manifest, under its own key
Picked(manifest, key) ==
    LET p == GetProp(manifest, key) IN [p EXCEPT !.k = key]

\* lines 52-66: the document cleanProject writes for a manifest that has a
\* scripts object
CleanedManifest(manifest) ==
    StringifyProps(
        <<ObjectProp("scripts", OrderedScripts(GetProp(manifest, "scripts").e)),
          Picked(manifest, "webDependencies"),
          Picked(manifest, "dependencies"),
          Picked(manifest, "devDependencies")>>)

\* lines 44-50: destructuring undefined throws a TypeError
CleanThrows(manifest) == GetProp(manifest, "scripts").t # "object"

\* lines 31-35
RemovedFiles ==
    {"package-lock.json", "node_modules", ".gitignore", ".npmignore", "LICENSE"}

\* line 207
PlaceholderManifest == <<StringProp("name", "my-ndx-app")>>

\* ------------------------------------------------------------------------
\* Templates on disk
\* ------------------------------------------------------------------------
ScriptNames == {"prepare", "start", "build", "test", "custom", "lint", "1"}

\* Lists of distinct script names, as written in a package.json.
ScriptNameLists ==
    {ks \in UNION {[1..k -> ScriptNames] : k \in 0..MaxScripts} :
        \A i, j \in 1..Len(ks) : i # j => ks[i] # ks[j]}

\* The scripts objects a manifest can hold once loaded: the i-th script as
\* written runs command i.
ScriptObjects ==
    {PropertyOrder([i \in 1..Len(ks) |-> Entry(ks[i], i)]) : ks \in ScriptNameLists}

Optional(prop) == {<<>>, <<prop>>}

\* The manifests a template can carry.
TemplateManifests ==
    {head \o scripts \o deps \o dev \o web \o tail :
        head \in {<<>>, <<StringProp("name", "tpl"), StringProp("keywords", "kw")>>},
        scripts \in {<<>>} \cup {<<ObjectProp("scripts", so)>> : so \in ScriptObjects},
        deps \in Optional(ObjectProp("dependencies", <<Entry("a", 1)>>)),
        dev \in Optional(ObjectProp("devDependencies", <<>>)),
        web \in Optional(ObjectProp("webDependencies", <<>>)),
        tail \in Optional(StringProp("extraField", "drop-me"))}

\* The files a template directory holds besides its manifest.
TemplateFileSets ==
    {{"package.json", "src"},
     {"package.json", "src", "LICENSE", ".gitignore", "package-lock.json"}}

\* ------------------------------------------------------------------------
\* State
\* ------------------------------------------------------------------------
VARIABLES
    args,              \* yargs(process.argv), with pos the positionals
    host,              \* installed package managers, node version, disk at start
    pc,                \* the statement the process is at
    request,           \* what validateArgs returned
    installer,         \* line 156
    isLocalTemplate,   \* line 163
    installedTemplate, \* line 164
    outcome,           \* running, exit, uncaught, unhandledRejection, success
    exitCode,          \* the exit status, NoExit while running
    err,               \* the error that ended the run
    stderr,            \* messages on standard error
    stdout,            \* messages on standard output
    steps,             \* the steps begun, in order
    lookup,            \* what the verifier found
    verified,          \* none, pass, fail
    cmds,              \* the subprocesses run
    dirs,              \* the directories on disk
    files,             \* the entries of the target directory
    manifest,          \* the document in <target>/package.json
    copied             \* the copies made: source and the manifest it carried

vars == <<args, host, pc, request, installer, isLocalTemplate, installedTemplate,
          outcome, exitCode, err, stderr, stdout, steps, lookup, verified, cmds,
          dirs, files, manifest, copied>>

NoExit == -1
NoLookup == [how |-> "none", keywords |-> KwUndefined]

Init ==
    /\ args \in [template : TemplateArgs, useYarn : FlagArgs, usePnpm : FlagArgs,
                 force : FlagArgs, target : TargetArgs, verbose : FlagArgs,
                 pos : PositionalArgs]
    /\ host \in [yarn : BOOLEAN, pnpm : BOOLEAN, node : NodeVersions,
                 dirs : SUBSET CandidateDirs]
    /\ pc = "validateArgs"
    /\ request = NoRequest
    /\ installer = "npm"
    /\ isLocalTemplate = FALSE
    /\ installedTemplate = <<>>
    /\ outcome = "running"
    /\ exitCode = NoExit
    /\ err = ""
    /\ stderr = <<>>
    /\ stdout = <<>>
    /\ steps = <<>>
    /\ lookup = NoLookup
    /\ verified = "none"
    /\ cmds = <<>>
    /\ dirs = host.dirs
    /\ files = {}
    /\ manifest = <<>>
    /\ copied = <<>>

\* ------------------------------------------------------------------------
\* How the process ends
\* ------------------------------------------------------------------------
\* parseInt(currentVersion.split('.')[0], 10) (line 170)
MajorVersion(version) == version[1]

\* line 171
minimumMajorVersion == 10

\* The async function at line 168 has no catch: an exception inside it is an
\* unhandled promise rejection.  Node.js before 15 warns on stderr and the
\* process ends with status 0; from 15 on it ends with status 1.
RejectionExitCode(version) == IF MajorVersion(version) >= 15 THEN 1 ELSE 0

\* exit(1) after a message on stderr (lines 11-14, 85-87, 93-95, 174-176)
ExitWith(tag, lines) ==
    /\ pc' = "halted"
    /\ outcome' = "exit"
    /\ exitCode' = 1
    /\ err' = tag
    /\ stderr' = stderr \o lines

\* An exception at module level (line 154): uncaught, status 1.
Uncaught(tag) ==
    /\ pc' = "halted"
    /\ outcome' = "uncaught"
    /\ exitCode' = 1
    /\ err' = tag
    /\ stderr' = Append(stderr, tag)

\* An exception inside the async function: the steps after it never run.
Rejected(tag, lines) ==
    /\ pc' = "halted"
    /\ outcome' = "unhandledRejection"
    /\ exitCode' = RejectionExitCode(host.node)
    /\ err' = tag
    /\ stderr' = stderr \o lines \o <<"UnhandledPromiseRejection">>

\* ------------------------------------------------------------------------
\* The sequence of steps (lines 148-271)
\* ------------------------------------------------------------------------
\* The statement that follows a completed step.
NextStep_CleanAfterInstall(step, isLocal) ==
    CASE step = "validateArgs" -> "checkNodeVersion"
      [] step = "checkNodeVersion" -> "verifyProjectTemplate"
      [] step = "verifyProjectTemplate" -> "mkdir"
      [] step = "mkdir" -> "writePlaceholder"
      [] step = "writePlaceholder" -> IF isLocal THEN "copy" ELSE "installTemplate"
      [] step = "installTemplate" -> "copy"
      [] step = "copy" -> "installPackages"
      [] step = "cleanProject" -> "halted"
      [] step = "installPackages" -> "cleanProject"
      [] OTHER -> "halted"
NextStep(step, isLocal) ==
    CASE step = "validateArgs" -> "checkNodeVersion"
      [] step = "checkNodeVersion" -> "verifyProjectTemplate"
      [] step = "verifyProjectTemplate" -> "mkdir"
      [] step = "mkdir" -> "writePlaceholder"
      [] step = "writePlaceholder" -> IF isLocal THEN "copy" ELSE "installTemplate"
      [] step = "installTemplate" -> "copy"
      [] step = "copy" -> "cleanProject"
      [] step = "cleanProject" -> "installPackages"
      [] step = "installPackages" -> "halted"
      [] OTHER -> "halted"

\* lines 148-166: validateArgs and the module-level constants
ValidateArgs ==
    /\ pc = "validateArgs"
    /\ steps' = Append(steps, "validateArgs")
    /\ LET r == validateArgs(args, host, dirs) IN
       \/ /\ r.status = "return"
          /\ request' = r.request
          /\ installer' = Installer(r.request.useYarn, r.request.usePnpm)
          /\ isLocalTemplate' = IsLocalTemplate(r.request.template.s)
          /\ installedTemplate' =
                 InstalledTemplate(r.request.template.s, r.request.targetDirectory)
          /\ pc' = NextStep("validateArgs", FALSE)
          /\ UNCHANGED <<outcome, exitCode, err, stderr>>
       \/ /\ r.status = "exit"
          /\ ExitWith(r.err, <<r.err>>)
          /\ UNCHANGED <<request, installer, isLocalTemplate, installedTemplate>>
       \/ /\ r.status = "throw"
          /\ Uncaught(r.err)
          /\ UNCHANGED <<request, installer, isLocalTemplate, installedTemplate>>
    /\ UNCHANGED <<args, host, stdout, lookup, verified, cmds, dirs, files,
                   manifest, copied>>

\* lines 169-193
CheckNodeVersion ==
    /\ pc = "checkNodeVersion"
    /\ steps' = Append(steps, "checkNodeVersion")
    /\ \/ /\ MajorVersion(host.node) < minimumMajorVersion
          /\ ExitWith("UnsupportedNode", <<"UnsupportedNode", "UpgradeNode">>)
          /\ UNCHANGED stdout
       \/ /\ MajorVersion(host.node) >= minimumMajorVersion
          /\ stdout' = stdout \o <<"intro", "Verifying template...">>
          /\ pc' = NextStep("checkNodeVersion", isLocalTemplate)
          /\ UNCHANGED <<outcome, exitCode, err, stderr>>
    /\ UNCHANGED <<args, host, request, installer, isLocalTemplate,
                   installedTemplate, lookup, verified, cmds, dirs, files,
                   manifest, copied>>

\* execa('npm', ['info', template, 'keywords', '--json']) (line 80)
InfoCommand(template) ==
    [bin |-> "npm", sub |-> "info", pkg |-> template,
     flags |-> <<"keywords", "--json">>, cwd |-> Cwd, stdio |-> "pipe"]

\* lines 195-198 and verifyProjectTemplate
VerifyProjectTemplate ==
    /\ pc = "verifyProjectTemplate"
    /\ steps' = Append(steps, "verifyProjectTemplate")
    /\ \E l \in (IF isLocalTemplate THEN LocalLookups ELSE RemoteLookups) :
        LET r == verifyProjectTemplate(isLocalTemplate, l) IN
        /\ lookup' = l
        /\ cmds' = IF isLocalTemplate THEN cmds
                   ELSE Append(cmds, InfoCommand(request.template.s))
        /\ \/ /\ r.status = "pass"
              /\ verified' = "pass"
              /\ stdout' = stdout \o <<"Template", "Target directory">>
              /\ pc' = NextStep("verifyProjectTemplate", isLocalTemplate)
              /\ UNCHANGED <<outcome, exitCode, err, stderr>>
           \/ /\ r.status = "exit"
              /\ verified' = "fail"
              /\ ExitWith(r.err, <<r.err>>)
              /\ UNCHANGED stdout
           \/ /\ r.status = "reject"
              /\ verified' = "fail"
              /\ Rejected(r.err, <<>>)
              /\ UNCHANGED stdout
    /\ UNCHANGED <<args, host, request, installer, isLocalTemplate,
                   installedTemplate, dirs, files, manifest, copied>>

\* fs.mkdirSync(targetDirectory, {recursive: true}) (lines 200-203)
MakeTargetDirectory ==
    /\ pc = "mkdir"
    /\ steps' = Append(steps, "mkdir")
    /\ \/ /\ dirs' = dirs \cup {request.targetDirectory}
          /\ pc' = NextStep("mkdir", isLocalTemplate)
          /\ UNCHANGED <<outcome, exitCode, err, stderr>>
       \/ /\ Rejected("EACCES", <<>>)
          /\ UNCHANGED dirs
    /\ UNCHANGED <<args, host, request, installer, isLocalTemplate,
                   installedTemplate, stdout, lookup, verified, cmds, files,
                   manifest, copied>>

\* lines 205-208
WritePlaceholder ==
    /\ pc = "writePlaceholder"
    /\ steps' = Append(steps, "writePlaceholder")
    /\ \/ /\ files' = files \cup {"package.json"}
          /\ manifest' = PlaceholderManifest
          /\ pc' = NextStep("writePlaceholder", isLocalTemplate)
          /\ UNCHANGED <<outcome, exitCode, err, stderr>>
       \/ /\ Rejected("EIO", <<>>)
          /\ UNCHANGED <<files, manifest>>
    /\ UNCHANGED <<args, host, request, installer, isLocalTemplate,
                   installedTemplate, stdout, lookup, verified, cmds, dirs,
                   copied>>

\* lines 213-220
TemplateInstallCommand(template, targetDirectory, verbose) ==
    [bin |-> "npm", sub |-> "install", pkg |-> template,
     flags |-> <<"--ignore-scripts", "--loglevel",
                 IF Truthy(verbose) THEN "verbose" ELSE "error">>,
     cwd |-> targetDirectory, stdio |-> "all"]

\* lines 211-226: only reached for a template that is not local
InstallTemplate ==
    /\ pc = "installTemplate"
    /\ steps' = Append(steps, "installTemplate")
    /\ cmds' = Append(cmds, TemplateInstallCommand(request.template.s,
                                request.targetDirectory, request.verbose))
    /\ \/ /\ files' = files \cup {"node_modules", "package-lock.json"}
          /\ manifest' = PlaceholderManifest
                             \o <<ObjectProp("dependencies", <<Entry("template", 1)>>)>>
          /\ pc' = NextStep("installTemplate", isLocalTemplate)
          /\ UNCHANGED <<outcome, exitCode, err, stderr>>
       \/ /\ Rejected("InstallFailed", <<"err.all">>)
          /\ UNCHANGED <<files, manifest>>
    /\ UNCHANGED <<args, host, request, installer, isLocalTemplate,
                   installedTemplate, stdout, lookup, verified, dirs, copied>>

\* The manifest of the scenario of the specification: scripts build,
\* prepare, custom, and a field that is not kept.
ExampleManifest ==
    <<ObjectProp("scripts",
          <<Entry("build", 1), Entry("prepare", 2), Entry("custom", 3)>>),
      ObjectProp("dependencies", <<Entry("a", 1)>>),
      ObjectProp("devDependencies", <<>>),
      ObjectProp("webDependencies", <<>>),
      StringProp("extraField", "drop-me")>>

\* The manifests of the templates of a whole run: the example, one without
\* dependencies, and one without scripts.
PipelineManifests ==
    {ExampleManifest,
     <<StringProp("name", "tpl"),
       ObjectProp("scripts", <<Entry("lint", 1), Entry("start", 2)>>)>>,
     <<StringProp("name", "tpl"), ObjectProp("dependencies", <<Entry("a", 1)>>)>>}

\* await copy(installedTemplate, targetDirectory) (line 228), for a template
\* whose manifest is one of manifests
CopyTemplateFrom(manifests) ==
    /\ pc = "copy"
    /\ steps' = Append(steps, "copy")
    /\ \/ \E m \in manifests, fs \in TemplateFileSets :
            /\ files' = files \cup fs
            /\ manifest' = m
            /\ copied' = Append(copied, [src |-> installedTemplate,
                                         dst |-> request.targetDirectory,
                                         manifest |-> m])
            /\ pc' = NextStep("copy", isLocalTemplate)
            /\ UNCHANGED <<outcome, exitCode, err, stderr>>
       \/ /\ Rejected("CopyFailed", <<>>)
          /\ UNCHANGED <<files, manifest, copied>>
    /\ UNCHANGED <<args, host, request, installer, isLocalTemplate,
                   installedTemplate, stdout, lookup, verified, cmds, dirs>>

CopyTemplate == CopyTemplateFrom(PipelineManifests)

\* await cleanProject(targetDirectory) (line 229, lines 29-67)
CleanProject ==
    /\ pc = "cleanProject"
    /\ steps' = Append(steps, "cleanProject")
    /\ files' = files \ RemovedFiles
    /\ \/ /\ CleanThrows(manifest)
          /\ Rejected("TypeError", <<>>)
          /\ UNCHANGED manifest
       \/ /\ ~CleanThrows(manifest)
          /\ manifest' = CleanedManifest(manifest)
          /\ pc' = NextStep("cleanProject", isLocalTemplate)
          /\ UNCHANGED <<outcome, exitCode, err, stderr>>
       \/ /\ ~CleanThrows(manifest)
          /\ Rejected("EIO", <<>>)
          /\ UNCHANGED manifest
    /\ UNCHANGED <<args, host, request, installer, isLocalTemplate,
                   installedTemplate, stdout, lookup, verified, cmds, dirs,
                   copied>>

\* installProcess (lines 240-259)
InstallCommand(packageManager, targetDirectory, verbose) ==
    CASE packageManager = "npm" ->
            [bin |-> "npm", sub |-> "install", pkg |-> <<>>,
             flags |-> <<"--loglevel", IF Truthy(verbose) THEN "verbose" ELSE "error">>,
             cwd |-> targetDirectory, stdio |-> "inherit"]
      [] packageManager = "yarn" ->
            [bin |-> "yarn", sub |-> "", pkg |-> <<>>,
             flags |-> <<IF Truthy(verbose) THEN "--verbose" ELSE "--silent">>,
             cwd |-> targetDirectory, stdio |-> "inherit"]
      [] packageManager = "pnpm" ->
            [bin |-> "pnpm", sub |-> "install", pkg |-> <<>>,
             flags |-> <<IF Truthy(verbose) THEN "--reporter=default"
                         ELSE "--reporter=silent">>,
             cwd |-> targetDirectory, stdio |-> "inherit"]

\* lines 231-270: the package install and the closing message
InstallPackages ==
    /\ pc = "installPackages"
    /\ steps' = Append(steps, "installPackages")
    /\ cmds' = Append(cmds, InstallCommand(installer, request.targetDirectory,
                                           request.verbose))
    /\ \/ /\ files' = files \cup {"node_modules"}
          /\ stdout' = stdout \o <<"Setting up packages...", "Leaf is setup!">>
          /\ pc' = NextStep("installPackages", isLocalTemplate)
          /\ outcome' = "success"
          /\ exitCode' = 0
          /\ UNCHANGED <<err, stderr>>
       \/ /\ Rejected("InstallFailed", <<>>)
          /\ stdout' = Append(stdout, "Setting up packages...")
          /\ UNCHANGED files
    /\ UNCHANGED <<args, host, request, installer, isLocalTemplate,
                   installedTemplate, lookup, verified, dirs, manifest, copied>>

Next ==
    \/ ValidateArgs
    \/ CheckNodeVersion
    \/ VerifyProjectTemplate
    \/ MakeTargetDirectory
    \/ WritePlaceholder
    \/ InstallTemplate
    \/ CopyTemplate
    \/ CleanProject
    \/ InstallPackages

Spec == Init /\ [][Next]_vars

\* ------------------------------------------------------------------------
\* cleanProject on its own: a run that has reached the copy, for every
\* manifest a template can carry
\* ------------------------------------------------------------------------
CleanRunArgs ==
    [template |-> JsStr(DotSlashTpl), useYarn |-> JsUndefined,
     usePnpm |-> JsUndefined, force |-> JsUndefined, target |-> JsStr(App),
     verbose |-> JsUndefined, pos |-> <<>>]

InitClean ==
    /\ args = CleanRunArgs
    /\ host \in [yarn : {FALSE}, pnpm : {FALSE}, node : {<<12, 22, 12>>, <<16, 20, 2>>},
                 dirs : {{}}]
    /\ pc = "copy"
    /\ request = validateArgs(args, host, {}).request
    /\ installer = Installer(request.useYarn, request.usePnpm)
    /\ isLocalTemplate = IsLocalTemplate(request.template.s)
    /\ installedTemplate =
           InstalledTemplate(request.template.s, request.targetDirectory)
    /\ outcome = "running"
    /\ exitCode = NoExit
    /\ err = ""
    /\ stderr = <<>>
    /\ stdout = <<"intro", "Verifying template...", "Template", "Target directory">>
    /\ steps = <<"validateArgs", "checkNodeVersion", "verifyProjectTemplate",
                 "mkdir", "writePlaceholder">>
    /\ lookup = [how |-> "ok", keywords |-> KwArray(<<Sentinel>>)]
    /\ verified = "pass"
    /\ cmds = <<>>
    /\ dirs = {request.targetDirectory}
    /\ files = {"package.json"}
    /\ manifest = PlaceholderManifest
    /\ copied = <<>>

NextClean ==
    \/ CopyTemplateFrom(TemplateManifests)
    \/ CleanProject

SpecClean == InitClean /\ [][NextClean]_vars

\* ------------------------------------------------------------------------
\* Vocabulary of the properties
\* ------------------------------------------------------------------------
Began(step) == \E i \in 1..Len(steps) : steps[i] = step
ValidateReturned == Began("checkNodeVersion")

\* The target the command line names: --target if given, else the first
\* positional argument.
NamedTarget ==
    IF Truthy(args.target) THEN args.target
    ELSE IF Len(args.pos) >= 1 THEN args.pos[1] ELSE JsUndefined
NeitherTargetSupplied == ~Truthy(args.target) /\ args.pos = <<>>

BothPmFlags == args.useYarn = JsTrue /\ args.usePnpm = JsTrue
PmChecksPass ==
    /\ ~BothPmFlags
    /\ args.useYarn = JsTrue => host.yarn
    /\ args.usePnpm = JsTrue => host.pnpm

BeginsWithDot(str) == Len(str) >= 1 /\ str[1] = "."

\* The steps that change the file system.
MutatingSteps ==
    {"mkdir", "writePlaceholder", "installTemplate", "copy", "cleanProject",
     "installPackages"}
NothingMutated ==
    /\ \A i \in 1..Len(steps) : steps[i] \notin MutatingSteps
    /\ dirs = host.dirs
    /\ files = {}
    /\ manifest = <<>>
    /\ copied = <<>>
    /\ \A i \in 1..Len(cmds) : cmds[i].sub # "install" /\ cmds[i].bin # "yarn"

\* The sentinel is one of the keywords.
TaggedWithSentinel(kw) ==
    \/ kw.t = "array" /\ \E i \in 1..Len(kw.a) : kw.a[i] = Sentinel
    \/ kw.t = "string" /\ kw.s = Sentinel

\* ------------------------------------------------------------------------
\* Properties
\* ------------------------------------------------------------------------
\* C1: when the resolved target directory exists before the run and --force
\* is not given, the process ends with exit code 1 and no step that changes
\* the file system is executed.
C1_ExistingTargetUntouched ==
    ( /\ pc # "validateArgs"
      /\ ~Truthy(args.force)
      /\ IsString(NamedTarget)
      /\ PathResolve(Cwd, NamedTarget.s) \in host.dirs )
    => (pc = "halted" /\ exitCode = 1 /\ NothingMutated)

C1_Witness ==
    /\ pc = "halted"
    /\ err = "TargetExists"
    /\ ~Truthy(args.force)
    /\ IsString(NamedTarget)
    /\ PathResolve(Cwd, NamedTarget.s) \in host.dirs
    /\ PmChecksPass

\* C2: the template is installed into the target and copied only after
\* verifyProjectTemplate passed; for a local template whose keywords are
\* absent or omit the sentinel tag, verification fails, the target directory
\* is not created and nothing is copied.
C2_OnlyVerifiedTemplatesCopied ==
    /\ (copied # <<>> \/ Began("installTemplate")) => verified = "pass"
    /\ ( /\ isLocalTemplate
         /\ lookup.how = "ok"
         /\ ~TaggedWithSentinel(lookup.keywords) )
       => (verified = "fail" /\ ~Began("mkdir") /\ copied = <<>>)

\* C3: when the registry query fails or its output cannot be parsed, the
\* verifier does not pass, the process exits non-zero and no later step runs.
C3_RemoteVerificationFailsClosed ==
    lookup.how \in {"queryFailed", "unparseable"}
    => /\ verified = "fail"
       /\ pc = "halted"
       /\ exitCode # 0 /\ exitCode # NoExit
       /\ steps[Len(steps)] = "verifyProjectTemplate"
       /\ NothingMutated

C3_Witness ==
    /\ lookup.how = "unparseable"
    /\ pc = "halted"
    /\ err = "VerificationUnavailable"
    /\ cmds = <<InfoCommand(request.template.s)>>

\* C4: verification passes exactly when the sentinel is one of the keywords;
\* for a missing value, an empty list, a list without the sentinel or a
\* single keyword string that only contains the sentinel, it fails with
\* UnauthorizedTemplate and a non-zero exit.
C4_PassIffSentinelIsAKeyword ==
    (lookup.how = "ok" /\ lookup.keywords.t \in {"undefined", "null", "array", "string"})
    => /\ verified = "pass" <=> TaggedWithSentinel(lookup.keywords)
       /\ ~TaggedWithSentinel(lookup.keywords)
            => (err = "UnauthorizedTemplate" /\ pc = "halted" /\ exitCode = 1)

\* C5: the exit code is 0 exactly when every step succeeded and 1 on every
\* failure; a failure leaves a message on stderr and the success message is
\* not printed after it.
C5_ExitCodeTellsSuccess ==
    pc = "halted"
    => /\ exitCode = 0 <=> outcome = "success"
       /\ outcome # "success"
            => /\ exitCode = 1
               /\ stderr # <<>>
               /\ \A i \in 1..Len(stdout) : stdout[i] # "Leaf is setup!"

\* C6: with both --useYarn and --usePnpm set, validateArgs fails with the
\* conflicting-package-manager error and status 1, whatever the other
\* arguments and the host, and no other validation error is reported.
C6_ConflictingPackageManagers ==
    (BothPmFlags /\ pc # "validateArgs")
    => /\ pc = "halted"
       /\ err = "ConflictingPackageManager"
       /\ stderr = <<"ConflictingPackageManager">>
       /\ exitCode = 1

C6_Witness ==
    /\ BothPmFlags
    /\ pc = "halted"
    /\ ~host.yarn
    /\ ~IsString(args.template)
    /\ NeitherTargetSupplied
    /\ err = "ConflictingPackageManager"

\* The scripts object the cleaned manifest is said to hold: the well-known
\* scripts that are present, in their fixed order, then the others in their
\* original order.
ClaimedScripts(scripts) ==
    DropUndefinedEntries(
        [i \in 1..Len(WellKnownScripts) |-> GetEntry(scripts, WellKnownScripts[i])])
        \o WithoutKeys(scripts, WellKnownSet)

KeptFields == {"scripts", "webDependencies", "dependencies", "devDependencies"}

\* C7: after cleanProject the manifest holds only scripts, webDependencies,
\* dependencies and devDependencies; its scripts are the well-known ones
\* present, in the order prepare, start, build, test, then the others in
\* their original order, values unchanged; also for a manifest without a
\* scripts field or without a dependency field.
C7_CleanedManifest ==
    (Began("cleanProject") /\ err # "EIO")
    => LET source == copied[Len(copied)].manifest IN
       /\ \A i \in 1..Len(manifest) : manifest[i].k \in KeptFields
       /\ \A f \in KeptFields \ {"scripts"} :
            HasKey(source, f) => GetProp(manifest, f) = GetProp(source, f)
       /\ HasKey(source, "scripts")
            => GetProp(manifest, "scripts").e = ClaimedScripts(GetProp(source, "scripts").e)

CanonicalSteps(isLocal) ==
    <<"validateArgs", "checkNodeVersion", "verifyProjectTemplate", "mkdir",
      "writePlaceholder">>
        \o (IF isLocal THEN <<>> ELSE <<"installTemplate">>)
        \o <<"copy", "cleanProject", "installPackages">>

\* C8: the steps run in the fixed order validate, verify, create directory,
\* write placeholder, install template (remote only), copy, clean, install
\* packages; a step begins only when the one before it has completed, none
\* runs twice, after a failure no step starts, and what earlier steps wrote
\* stays on disk.
C8_StepsInOrder ==
    /\ [](LET order == CanonicalSteps(isLocalTemplate) IN
          /\ Len(steps) <= Len(order)
          /\ steps = SubSeq(order, 1, Len(steps))
          /\ pc # "halted" => pc = order[Len(steps) + 1]
          /\ outcome = "success" => (pc = "halted" /\ steps = order)
          /\ outcome # "running" => pc = "halted")
    /\ [][/\ outcome # "running" => UNCHANGED <<steps, dirs, files, manifest, cmds>>
          /\ dirs \subseteq dirs'
          /\ (outcome' \notin {"running", "success"}) =>
                 (manifest' = manifest /\ files' \subseteq files)]_vars

C8_Witness ==
    /\ pc = "halted"
    /\ outcome = "unhandledRejection"
    /\ steps = SubSeq(CanonicalSteps(FALSE), 1, 8)
    /\ request.targetDirectory \in dirs
    /\ "src" \in files

\* C9: a template is local exactly when its identifier begins with '.': the
\* template install runs exactly for the other identifiers, always with
\* --ignore-scripts; the copy source is the resolved local path, or
\* <target>/node_modules/<template>; a local template causes no registry
\* query and no template install.
C9_LocalIffLeadingDot ==
    ValidateReturned
    => LET tpl == request.template.s
           local == BeginsWithDot(tpl)
       IN
       /\ Began("installTemplate") => ~local
       /\ (Began("copy") /\ ~local) => Began("installTemplate")
       /\ Began("installTemplate") <=>
              \E i \in 1..Len(cmds) : cmds[i].sub = "install" /\ cmds[i].pkg = tpl
       /\ \A i \in 1..Len(cmds) :
              (cmds[i].sub = "install" /\ cmds[i].pkg # <<>>)
              => /\ cmds[i].bin = "npm"
                 /\ cmds[i].flags[1] = "--ignore-scripts"
                 /\ cmds[i].cwd = request.targetDirectory
       /\ \A i \in 1..Len(copied) :
              copied[i].src = IF local THEN Cwd \o Slash \o SubSeq(tpl, 3, Len(tpl))
                              ELSE request.targetDirectory \o Slash \o NodeModules
                                       \o Slash \o tpl
       /\ local => \A i \in 1..Len(cmds) : cmds[i].pkg = <<>>
       /\ (Began("verifyProjectTemplate") /\ ~local /\ Len(steps) > 3)
              => (cmds # <<>> /\ cmds[1] = InfoCommand(tpl))

C9_Witness ==
    /\ request.template.s = PkgDotJs
    /\ copied # <<>>
    /\ Began("installTemplate")

\* C10 as stated: the target comes from --target if given and else from the
\* positional argument; validateArgs fails with the missing-target error
\* exactly when neither is supplied, with the unexpected-arguments error
\* whenever more than one positional argument is supplied, and never returns
\* a request without a target or whose template is not a string.
C10_TargetResolution ==
    pc # "validateArgs"
    => /\ (pc = "halted" /\ err = "MissingTarget" /\ exitCode = 1)
              <=> NeitherTargetSupplied
       /\ Len(args.pos) > 1
              => (pc = "halted" /\ err = "UnexpectedArguments" /\ exitCode = 1)
       /\ ValidateReturned
              => /\ IsString(request.template)
                 /\ IsString(NamedTarget)
                 /\ request.targetDirectory = PathResolve(Cwd, NamedTarget.s)

\* C10 as amended: the missing-target error is reported exactly when neither
\* is supplied and the package-manager checks before it pass; the
\* unexpected-arguments error exactly when more than one positional argument
\* is supplied and the package-manager, target and template checks before it
\* pass; in both situations validateArgs ends the process with status 1; a
\* request that is returned has a string template and the target resolved
\* from --target if given and else from the positional argument.
C10_TargetResolutionAfterEarlierChecks ==
    pc # "validateArgs"
    => /\ (pc = "halted" /\ err = "MissingTarget")
              <=> (PmChecksPass /\ NeitherTargetSupplied)
       /\ (pc = "halted" /\ err = "UnexpectedArguments")
              <=> /\ PmChecksPass
                  /\ ~NeitherTargetSupplied
                  /\ IsString(args.template)
                  /\ Len(args.pos) > 1
       /\ (NeitherTargetSupplied \/ Len(args.pos) > 1)
              => (pc = "halted" /\ exitCode = 1 /\ ~ValidateReturned)
       /\ ValidateReturned
              => /\ IsString(request.template)
                 /\ IsString(NamedTarget)
                 /\ request.targetDirectory # <<>>
                 /\ request.targetDirectory = PathResolve(Cwd, NamedTarget.s)

C10_Witness ==
    /\ pc = "halted"
    /\ err = "UnexpectedArguments"
    /\ Len(args.pos) > 1
    /\ args.target = JsStr(App)

====
